---------------------------- MODULE Spec2Model ----------------------------
(***************************************************************************)
(* HomeScreen of the todo-list front-end (src/unnamed/part_000) and the    *)
(* two-route stack navigator around it (src/src/navigation/                *)
(* AppNavigator.tsx).                                                      *)
(*                                                                         *)
(* Strings are sequences of one-character strings.  An optional field      *)
(* (description?: string, the route parameter taskId?: string) is <<>>     *)
(* when absent and <<v>> when present.                                     *)
(***************************************************************************)
EXTENDS Integers, Sequences, FiniteSets

\* ------------------------------------------------------------------ bounds
\* Longest task list of the sort universe.
MaxTasks == 3
\* Requests issued in one behaviour (a PUT or DELETE reserves the id of the
\* refetch that follows its success).
MaxRequests == 4
\* Alert dialogs open at the same time.
MaxAlerts == 1

\* ----------------------------------------------------------------- strings
Alphabet == {"a", "A", "b", "B"}

Strings == {<<>>} \cup {<<c>> : c \in Alphabet}
             \cup {<<c, d>> : c \in Alphabet, d \in Alphabet}

\* String.prototype.toLowerCase on one character of the alphabet.
LowerChar(c) == CASE c = "A" -> "a" [] c = "B" -> "b" [] OTHER -> c

toLowerCase(s) == [i \in 1..Len(s) |-> LowerChar(s[i])]

\* String.prototype.includes: needle occurs in hay at some offset.
includes(hay, needle) ==
    \E k \in 0..(Len(hay) - Len(needle)) :
        SubSeq(hay, k + 1, k + Len(needle)) = needle

\* ------------------------------------------------------------------- tasks
\* interface Task.  createdAt is a string; the strings of DateStrings are
\* the ones the model feeds to new Date(...).
DateStrings == {"2024-01-01", "2024-01-01T00:00:00Z", "2024-01-02", "n/a"}

ValidDates == {"2024-01-01", "2024-01-01T00:00:00Z", "2024-01-02"}

\* new Date(s).getTime() is NaN for a string that is no date.
IsNaNTime(s) == s \notin ValidDates

\* new Date(s).getTime(), in days since 2024-01-01, for a valid date.
getTime(s) == CASE s = "2024-01-01" -> 0
                [] s = "2024-01-01T00:00:00Z" -> 0
                [] s = "2024-01-02" -> 1

Task(id, title, description, isCompleted, createdAt) ==
    [id |-> id, title |-> title, description |-> description,
     isCompleted |-> isCompleted, createdAt |-> createdAt]

\* The predicate with the query left as typed.
CaseSensitiveMatches(task, query) ==
    \/ includes(toLowerCase(task.title), query)
    \/ /\ task.description # <<>>
       /\ includes(toLowerCase(task.description[1]), query)

\* The predicate of tasks.filter(...).  task.description?.toLowerCase()
\* is undefined (falsy) when the description is absent.
TaskMatches(task, query) ==
    \/ includes(toLowerCase(task.title), toLowerCase(query))
    \/ /\ task.description # <<>>
       /\ includes(toLowerCase(task.description[1]), toLowerCase(query))

\* Array.prototype.filter keeps the matching elements in their order.
Filter(list, query) == SelectSeq(list, LAMBDA t : TaskMatches(t, query))

\* The comparator's result is NaN: it subtracts the time of an invalid date.
ComparatorIsNaN(a, b) ==
    /\ a.isCompleted = b.isCompleted
    /\ IsNaNTime(a.createdAt) \/ IsNaNTime(b.createdAt)

\* The comparator with the dates subtracted the other way round.
NewestFirstComparator(a, b) ==
    IF a.isCompleted # b.isCompleted
    THEN (IF a.isCompleted THEN 1 ELSE -1)
    ELSE getTime(b.createdAt) - getTime(a.createdAt)

\* The comparator of .sort(...): incomplete tasks first, then the
\* difference of the creation times.
Comparator(a, b) ==
    IF a.isCompleted # b.isCompleted
    THEN (IF a.isCompleted THEN 1 ELSE -1)
    ELSE getTime(a.createdAt) - getTime(b.createdAt)

\* Array.prototype.sort reads a NaN result of the comparator as +0.
SortCompare(a, b) == IF ComparatorIsNaN(a, b) THEN 0 ELSE Comparator(a, b)

\* x put into the sorted list after every element that is not greater.
RECURSIVE Insert(_, _)
Insert(sorted, x) ==
    IF sorted = <<>> THEN <<x>>
    ELSE IF SortCompare(sorted[Len(sorted)], x) > 0
         THEN Append(Insert(SubSeq(sorted, 1, Len(sorted) - 1), x), sorted[Len(sorted)])
         ELSE Append(sorted, x)

\* Insertion sort: the stable sort engines run on short arrays.
RECURSIVE InsertionSort(_)
InsertionSort(list) ==
    IF list = <<>> THEN <<>>
    ELSE Insert(InsertionSort(SubSeq(list, 1, Len(list) - 1)), list[Len(list)])

\* The stable merge of two sorted lists: the head of the left list goes
\* first unless the comparator puts the head of the right list before it.
RECURSIVE Merge(_, _)
Merge(left, right) ==
    IF left = <<>> THEN right
    ELSE IF right = <<>> THEN left
    ELSE IF SortCompare(left[1], right[1]) <= 0
         THEN <<left[1]>> \o Merge(Tail(left), right)
         ELSE <<right[1]>> \o Merge(left, Tail(right))

\* Merge sort: the stable sort engines run on longer arrays.
RECURSIVE MergeSort(_)
MergeSort(list) ==
    IF Len(list) <= 1 THEN list
    ELSE LET mid == Len(list) \div 2 IN
         Merge(MergeSort(SubSeq(list, 1, mid)),
               MergeSort(SubSeq(list, mid + 1, Len(list))))

\* What .sort(comparator) may return.  Array.prototype.sort is stable, so
\* under a consistent comparator every engine returns the same list; when
\* the comparator is inconsistent (a NaN result) the order is
\* implementation-defined, and the outcomes are those of the sorts above.
SortOutcomes(list) == {InsertionSort(list), MergeSort(list)}

\* ------------------------------------------------------------- the screens
VARIABLES
    route,        \* the focused route of the stack navigator
    params,       \* the parameters of the focused route: [taskId |-> <<>> or <<id>>]
    tasks,        \* useState<Task[]>([])
    loading,      \* useState(false)
    searchQuery,  \* useState('')
    alerts,       \* the Alert dialogs that are open, oldest first
    inflight,     \* the HTTP requests axios has sent and not yet settled
    nextRid,      \* the id of the next request
    tasksFrom,    \* the id of the GET whose response tasks holds (0: none)
    event         \* the event the program handled last

vars == <<route, params, tasks, loading, searchQuery, alerts, inflight,
          nextRid, tasksFrom, event>>

\* RootStackParamList: the routes of the navigator.
Routes == {"home", "add_edit"}

initialRouteName == "home"

NoParams == [taskId |-> <<>>]

Ids == {"t1", "t2"}

\* An event: what happened, the task id and the request id it is about,
\* and the response body of a GET that succeeded.
Ev(op, id, rid) == [op |-> op, id |-> id, rid |-> rid, data |-> <<>>]

Request(rid, method, id, body) ==
    [rid |-> rid, method |-> method, id |-> id, body |-> body]

Alert(kind, id) == [kind |-> kind, id |-> id]

Remove(seq, i) == SubSeq(seq, 1, i - 1) \o SubSeq(seq, i + 1, Len(seq))

\* The task lists the server answers a GET with in the network model:
\* nothing, task "a" (t1) alone, and t1, complete or not, followed by
\* task "b" (t2).
TitleOf(id) == IF id = "t1" THEN <<"a">> ELSE <<"b">>

ServerTask(id, isCompleted) == Task(id, TitleOf(id), <<>>, isCompleted, "2024-01-01")

ServerLists ==
    {<<>>,
     <<ServerTask("t1", FALSE)>>,
     <<ServerTask("t1", FALSE), ServerTask("t2", FALSE)>>,
     <<ServerTask("t1", TRUE), ServerTask("t2", FALSE)>>}

\* The texts typed into the search bar in the network model.
ServerQueries == {<<>>, <<"A">>}

\* const filteredTasks = tasks.filter(...).sort(...): the lists one render
\* may compute.
FilteredTasks == SortOutcomes(Filter(tasks, searchQuery))

\* The FlatList is rendered: not loading, and some task passes the filter.
ListShown == ~loading /\ Filter(tasks, searchQuery) # <<>>

\* The tasks of the rendered TodoItems.
ShownTasks == IF ListShown
              THEN {tasks[i] : i \in {j \in DOMAIN tasks : TaskMatches(tasks[j], searchQuery)}}
              ELSE {}

\* The focus effect of HomeScreen is scheduled and has not run yet.
FocusPending == event.op \in {"mount", "goBack"}

\* The home screen takes the user's touches: it is focused, its effects
\* have run, and no (modal) Alert dialog covers it.
HomeReady == route = "home" /\ ~FocusPending /\ alerts = <<>>

Init ==
    /\ route = initialRouteName
    /\ params = NoParams
    /\ tasks = <<>>
    /\ loading = FALSE
    /\ searchQuery = <<>>
    /\ alerts = <<>>
    /\ inflight = {}
    /\ nextRid = 1
    /\ tasksFrom = 0
    /\ event = Ev("mount", "", 0)

\* fetchTasks up to its await: setLoading(true) and the GET.
FetchTasks(rid, pending) ==
    /\ loading' = TRUE
    /\ inflight' = pending \cup {Request(rid, "GET", "", FALSE)}

\* The effect as useEffect would run it: on mount only.
FocusEffectOnMountOnly ==
    /\ route = "home"
    /\ FocusPending
    /\ IF event.op = "mount"
       THEN /\ FetchTasks(nextRid, inflight)
            /\ nextRid' = nextRid + 1
            /\ event' = Ev("focus", "", nextRid)
       ELSE /\ event' = Ev("focus", "", 0)
            /\ UNCHANGED <<loading, inflight, nextRid>>
    /\ UNCHANGED <<route, params, tasks, searchQuery, alerts, tasksFrom>>

\* useFocusEffect(useCallback(() => { fetchTasks(); }, []))
FocusEffect ==
    /\ route = "home"
    /\ FocusPending
    /\ FetchTasks(nextRid, inflight)
    /\ nextRid' = nextRid + 1
    /\ event' = Ev("focus", "", nextRid)
    /\ UNCHANGED <<route, params, tasks, searchQuery, alerts, tasksFrom>>

\* fetchTasks after its await resolved: setTasks(response.data), then finally.
GetSucceeds(r, data) ==
    /\ ~FocusPending
    /\ r \in inflight /\ r.method = "GET"
    /\ tasks' = data
    /\ loading' = FALSE
    /\ tasksFrom' = r.rid
    /\ inflight' = inflight \ {r}
    /\ event' = [Ev("getOk", "", r.rid) EXCEPT !.data = data]
    /\ UNCHANGED <<route, params, searchQuery, alerts, nextRid>>

\* The rejection handled with the list emptied.
GetFailsClearsTasks(r) ==
    /\ ~FocusPending
    /\ r \in inflight /\ r.method = "GET"
    /\ Len(alerts) < MaxAlerts
    /\ alerts' = Append(alerts, Alert("fetchError", ""))
    /\ loading' = FALSE
    /\ tasks' = <<>>
    /\ inflight' = inflight \ {r}
    /\ event' = Ev("getFailed", "", r.rid)
    /\ UNCHANGED <<route, params, searchQuery, nextRid, tasksFrom>>

\* fetchTasks after its await rejected: catch (Alert.alert), then finally.
GetFails(r) ==
    /\ ~FocusPending
    /\ r \in inflight /\ r.method = "GET"
    /\ Len(alerts) < MaxAlerts
    /\ alerts' = Append(alerts, Alert("fetchError", ""))
    /\ loading' = FALSE
    /\ inflight' = inflight \ {r}
    /\ event' = Ev("getFailed", "", r.rid)
    /\ UNCHANGED <<route, params, tasks, searchQuery, nextRid, tasksFrom>>

\* The toggle with an optimistic update of the displayed task.
HandleToggleCompleteOptimistic(task) ==
    /\ HomeReady
    /\ task \in ShownTasks
    /\ nextRid + 1 <= MaxRequests
    /\ inflight' = inflight \cup {Request(nextRid, "PUT", task.id, ~task.isCompleted)}
    /\ nextRid' = nextRid + 2
    /\ tasks' = [i \in DOMAIN tasks |->
                   IF tasks[i].id = task.id
                   THEN [tasks[i] EXCEPT !.isCompleted = ~task.isCompleted]
                   ELSE tasks[i]]
    /\ event' = Ev("toggle", task.id, nextRid)
    /\ UNCHANGED <<route, params, loading, searchQuery, alerts, tasksFrom>>

\* handleToggleComplete up to its await: the PUT.
HandleToggleComplete(task) ==
    /\ HomeReady
    /\ task \in ShownTasks
    /\ nextRid + 1 <= MaxRequests
    /\ inflight' = inflight \cup {Request(nextRid, "PUT", task.id, ~task.isCompleted)}
    /\ nextRid' = nextRid + 2
    /\ event' = Ev("toggle", task.id, nextRid)
    /\ UNCHANGED <<route, params, tasks, loading, searchQuery, alerts, tasksFrom>>

\* handleToggleComplete after its await resolved: fetchTasks().
PutSucceeds(r) ==
    /\ ~FocusPending
    /\ r \in inflight /\ r.method = "PUT"
    /\ FetchTasks(r.rid + 1, inflight \ {r})
    /\ event' = Ev("putOk", r.id, r.rid)
    /\ UNCHANGED <<route, params, tasks, searchQuery, alerts, nextRid, tasksFrom>>

\* handleToggleComplete after its await rejected: Alert.alert.
PutFails(r) ==
    /\ ~FocusPending
    /\ r \in inflight /\ r.method = "PUT"
    /\ Len(alerts) < MaxAlerts
    /\ alerts' = Append(alerts, Alert("toggleError", ""))
    /\ inflight' = inflight \ {r}
    /\ event' = Ev("putFailed", r.id, r.rid)
    /\ UNCHANGED <<route, params, tasks, loading, searchQuery, nextRid, tasksFrom>>

\* The delete sent without the confirmation dialog.
HandleDeleteAtOnce(id) ==
    /\ HomeReady
    /\ \E t \in ShownTasks : t.id = id
    /\ nextRid + 1 <= MaxRequests
    /\ inflight' = inflight \cup {Request(nextRid, "DELETE", id, FALSE)}
    /\ nextRid' = nextRid + 2
    /\ event' = Ev("delete", id, 0)
    /\ UNCHANGED <<route, params, tasks, loading, searchQuery, alerts, tasksFrom>>

\* handleDelete: the confirmation dialog with its buttons "İptal" and "Sil".
HandleDelete(id) ==
    /\ HomeReady
    /\ \E t \in ShownTasks : t.id = id
    /\ Len(alerts) < MaxAlerts
    /\ alerts' = Append(alerts, Alert("confirmDelete", id))
    /\ event' = Ev("delete", id, 0)
    /\ UNCHANGED <<route, params, tasks, loading, searchQuery, inflight, nextRid,
                   tasksFrom>>

\* A dialog is closed without an onPress handler: "İptal" of the
\* confirmation, the default button of an error alert.
Dismiss(i) ==
    /\ ~FocusPending
    /\ i \in DOMAIN alerts
    /\ alerts' = Remove(alerts, i)
    /\ event' = Ev("dismiss", alerts[i].id, 0)
    /\ UNCHANGED <<route, params, tasks, loading, searchQuery, inflight, nextRid,
                   tasksFrom>>

\* onPress of "Sil" up to its await: the DELETE.
PressSil(i) ==
    /\ ~FocusPending
    /\ i \in DOMAIN alerts
    /\ alerts[i].kind = "confirmDelete"
    /\ nextRid + 1 <= MaxRequests
    /\ alerts' = Remove(alerts, i)
    /\ inflight' = inflight \cup {Request(nextRid, "DELETE", alerts[i].id, FALSE)}
    /\ nextRid' = nextRid + 2
    /\ event' = Ev("sil", alerts[i].id, nextRid)
    /\ UNCHANGED <<route, params, tasks, loading, searchQuery, tasksFrom>>

\* onPress of "Sil" after its await resolved: fetchTasks().
DeleteSucceeds(r) ==
    /\ ~FocusPending
    /\ r \in inflight /\ r.method = "DELETE"
    /\ FetchTasks(r.rid + 1, inflight \ {r})
    /\ event' = Ev("deleteOk", r.id, r.rid)
    /\ UNCHANGED <<route, params, tasks, searchQuery, alerts, nextRid, tasksFrom>>

\* onPress of "Sil" after its await rejected: Alert.alert.
DeleteFails(r) ==
    /\ ~FocusPending
    /\ r \in inflight /\ r.method = "DELETE"
    /\ Len(alerts) < MaxAlerts
    /\ alerts' = Append(alerts, Alert("deleteError", ""))
    /\ inflight' = inflight \ {r}
    /\ event' = Ev("deleteFailed", r.id, r.rid)
    /\ UNCHANGED <<route, params, tasks, loading, searchQuery, nextRid, tasksFrom>>

\* The navigation with a refetch started on the way.
HandleEditFetches(id) ==
    /\ HomeReady
    /\ \E t \in ShownTasks : t.id = id
    /\ nextRid <= MaxRequests
    /\ route' = "add_edit"
    /\ params' = [taskId |-> <<id>>]
    /\ FetchTasks(nextRid, inflight)
    /\ nextRid' = nextRid + 1
    /\ event' = Ev("edit", id, 0)
    /\ UNCHANGED <<tasks, searchQuery, alerts, tasksFrom>>

\* handleEdit: navigation.navigate('add_edit', { taskId: id })
HandleEdit(id) ==
    /\ HomeReady
    /\ \E t \in ShownTasks : t.id = id
    /\ route' = "add_edit"
    /\ params' = [taskId |-> <<id>>]
    /\ event' = Ev("edit", id, 0)
    /\ UNCHANGED <<tasks, loading, searchQuery, alerts, inflight, nextRid, tasksFrom>>

\* handleAdd: navigation.navigate('add_edit', undefined)
HandleAdd ==
    /\ HomeReady
    /\ route' = "add_edit"
    /\ params' = NoParams
    /\ event' = Ev("add", "", 0)
    /\ UNCHANGED <<tasks, loading, searchQuery, alerts, inflight, nextRid, tasksFrom>>

\* The stack navigator pops add_edit: home is focused again and its focus
\* effect is scheduled.
GoBack ==
    /\ route = "add_edit"
    /\ alerts = <<>>
    /\ nextRid <= MaxRequests
    /\ route' = "home"
    /\ params' = NoParams
    /\ event' = Ev("goBack", "", 0)
    /\ UNCHANGED <<tasks, loading, searchQuery, alerts, inflight, nextRid, tasksFrom>>

\* SearchBar onChangeText={setSearchQuery}
SetSearchQuery(q) ==
    /\ HomeReady
    /\ q # searchQuery
    /\ searchQuery' = q
    /\ event' = Ev("search", "", 0)
    /\ UNCHANGED <<route, params, tasks, loading, alerts, inflight, nextRid, tasksFrom>>

\* The promise of request r settles and the code after its await runs.
Settle(r) ==
    \/ \E data \in ServerLists : GetSucceeds(r, data)
    \/ GetFails(r)
    \/ PutSucceeds(r)
    \/ PutFails(r)
    \/ DeleteSucceeds(r)
    \/ DeleteFails(r)

Next ==
    \/ FocusEffect
    \/ \E r \in inflight : \E data \in ServerLists : GetSucceeds(r, data)
    \/ \E r \in inflight : GetFails(r)
    \/ \E r \in inflight : PutSucceeds(r)
    \/ \E r \in inflight : PutFails(r)
    \/ \E r \in inflight : DeleteSucceeds(r)
    \/ \E r \in inflight : DeleteFails(r)
    \/ \E t \in ShownTasks : HandleToggleComplete(t)
    \/ \E id \in Ids : HandleDelete(id)
    \/ \E i \in DOMAIN alerts : Dismiss(i)
    \/ \E i \in DOMAIN alerts : PressSil(i)
    \/ \E id \in Ids : HandleEdit(id)
    \/ HandleAdd
    \/ GoBack
    \/ \E q \in ServerQueries : SetSearchQuery(q)

Spec == Init /\ [][Next]_vars

\* The same screen fed with every one-task list over Strings, to exercise
\* the filter on every title, description and query.
FilterLists ==
    {<<>>} \cup
    {<<Task("t1", title, description, FALSE, "2024-01-01")>> :
        title \in Strings, description \in {<<>>} \cup {<<d>> : d \in Strings}}

NextFilter ==
    \/ FocusEffect
    \/ \E r \in inflight : \E data \in FilterLists : GetSucceeds(r, data)
    \/ \E q \in Strings : SetSearchQuery(q)

FilterSpec == Init /\ [][NextFilter]_vars

\* The same screen fed with every list of up to MaxTasks tasks over two
\* titles, both completion flags and DateStrings, to exercise the sort.
IdNames == <<"t1", "t2", "t3", "t4", "t5", "t6">>

SortAttrs == [title : {<<"a">>, <<"b">>}, isCompleted : BOOLEAN, createdAt : DateStrings]

\* The list of the tasks with the attributes f[1], ..., f[n]; the id of a
\* task is its place in the server's list.
SortList(f) ==
    [i \in DOMAIN f |-> Task(IdNames[i], f[i].title, <<>>, f[i].isCompleted,
                             f[i].createdAt)]

SortQueries == {<<>>, <<"A">>}

NextSort ==
    \/ FocusEffect
    \/ \E r \in inflight : \E n \in 0..MaxTasks : \E f \in [1..n -> SortAttrs] :
          GetSucceeds(r, SortList(f))
    \/ \E q \in SortQueries : SetSearchQuery(q)

SortSpec == Init /\ [][NextSort]_vars

\* The network and the scheduler are fair: a scheduled focus effect runs,
\* and every request that was sent is settled.
SettleRid(rid) == \E r \in inflight : r.rid = rid /\ Settle(r)

FairSpec ==
    /\ Spec
    /\ WF_vars(FocusEffect)
    /\ \A rid \in 1..MaxRequests : WF_vars(SettleRid(rid))

\* ------------------------------------------------------------------ claims
Range(seq) == {seq[i] : i \in DOMAIN seq}

Gets(reqs) == {r \in reqs : r.method = "GET"}

\* The requests a step sends and the ones it settles.
Sent == inflight' \ inflight

Settled == inflight \ inflight'

NoRequestSent == Sent = {} /\ nextRid' = nextRid

\* C1: the navigator has exactly the routes home and add_edit and starts on
\* home; a step that leaves home goes to add_edit, with no taskId for
\* handleAdd and with the id of the pressed item for handleEdit, sends no
\* HTTP request and leaves tasks, loading and searchQuery alone.
C1_Navigation ==
    /\ route = "home"
    /\ Routes = {"home", "add_edit"}
    /\ [][/\ route' \in {"home", "add_edit"}
          /\ (route = "home" /\ route' # "home") =>
                /\ route' = "add_edit"
                /\ event'.op \in {"add", "edit"}
                /\ event'.op = "add" => params'.taskId = <<>>
                /\ event'.op = "edit" =>
                      /\ params'.taskId = <<event'.id>>
                      /\ \E t \in ShownTasks : t.id = event'.id
                /\ NoRequestSent /\ Settled = {}
                /\ tasks' = tasks /\ loading' = loading
                /\ searchQuery' = searchQuery]_vars

C1_Witness ==
    /\ event.op = "edit" /\ route = "add_edit" /\ params.taskId = <<"t2">>
    /\ Len(tasks) = 2

\* C2: the tasks shown are exactly the tasks whose title, or whose
\* description when there is one, contains the query ignoring letter case;
\* the empty query shows every task; a change of the query sends no HTTP
\* request and leaves tasks and loading alone.
CasePairs == {{"a", "A"}, {"b", "B"}}

SameLetter(c, d) == c = d \/ {c, d} \in CasePairs

ContainsIgnoringCase(hay, needle) ==
    \E k \in 0..(Len(hay) - Len(needle)) :
        \A i \in 1..Len(needle) : SameLetter(hay[k + i], needle[i])

ShouldShow(t, q) ==
    \/ ContainsIgnoringCase(t.title, q)
    \/ t.description # <<>> /\ ContainsIgnoringCase(t.description[1], q)

FilterExact ==
    \A d \in FilteredTasks :
        /\ Range(d) = {t \in Range(tasks) : ShouldShow(t, searchQuery)}
        /\ searchQuery = <<>> => Range(d) = Range(tasks)

C2_Filter ==
    /\ FilterExact
    /\ [][/\ FilterExact'
          /\ searchQuery' # searchQuery =>
                /\ NoRequestSent /\ Settled = {}
                /\ tasks' = tasks /\ loading' = loading]_vars

C2_Witness ==
    /\ event.op = "search"
    /\ searchQuery = <<"A", "b">>
    /\ tasks = <<Task("t1", <<"b">>, <<<<"a", "B">>>>, FALSE, "2024-01-01")>>
    /\ FilteredTasks = {tasks}

\* C3: in the displayed list every incomplete task precedes every completed
\* one, tasks of the same completion status are in non-decreasing createdAt
\* order, and the list is a permutation of the filtered tasks.
IncompleteFirst(d) ==
    \A i, j \in DOMAIN d : (i < j) => ~(d[i].isCompleted /\ ~d[j].isCompleted)

\* No task is shown before an older task of the same completion status.
OldestFirst(d) ==
    \A i, j \in DOMAIN d :
        (/\ i < j
         /\ d[i].isCompleted = d[j].isCompleted
         /\ ~IsNaNTime(d[i].createdAt) /\ ~IsNaNTime(d[j].createdAt))
        => getTime(d[i].createdAt) <= getTime(d[j].createdAt)

\* Task ids are unique in a list, so a permutation is a list of the same
\* length with the same elements.
IsPermutation(d, list) == Len(d) = Len(list) /\ Range(d) = Range(list)

AllDatesValid(list) == \A i \in DOMAIN list : ~IsNaNTime(list[i].createdAt)

C4_FetchOutcome ==
    [][\A r \in Gets(Settled) :
          /\ loading' = FALSE
          /\ event'.rid = r.rid
          /\ event'.op \in {"getOk", "getFailed"}
          /\ event'.op = "getFailed" =>
                /\ tasks' = tasks
                /\ alerts' = Append(alerts, Alert("fetchError", ""))
          /\ event'.op = "getOk" =>
                /\ tasks' = event'.data
                /\ alerts' = alerts]_vars

C4_Witness ==
    /\ event.op = "getFailed"
    /\ Len(tasks) = 2
    /\ alerts = <<Alert("fetchError", "")>>
    /\ loading = FALSE

\* C5: handleToggleComplete sends exactly one PUT, to the id of the task and
\* with the negation of the flag it is displayed with, and changes neither
\* tasks nor loading; the refetch starts when, and only when, that PUT has
\* succeeded; a failed PUT raises an alert, starts no GET and leaves tasks
\* and loading alone.
C5_Toggle ==
    [][/\ event'.op = "toggle" =>
             /\ \E t \in ShownTasks :
                   /\ t.id = event'.id
                   /\ Sent = {Request(event'.rid, "PUT", t.id, ~t.isCompleted)}
             /\ Settled = {}
             /\ tasks' = tasks /\ loading' = loading /\ alerts' = alerts
       /\ \A r \in Settled : r.method = "PUT" =>
             /\ event'.op \in {"putOk", "putFailed"}
             /\ tasks' = tasks
             /\ event'.op = "putOk" =>
                   /\ Cardinality(Sent) = 1 /\ Gets(Sent) = Sent
                   /\ loading' = TRUE
                   /\ alerts' = alerts
             /\ event'.op = "putFailed" =>
                   /\ Sent = {}
                   /\ loading' = loading
                   /\ alerts' = Append(alerts, Alert("toggleError", ""))
       /\ \A r \in Sent : r.method = "PUT" => event'.op = "toggle"]_vars

C5_Witness ==
    /\ event.op = "putOk"
    /\ \E g \in Gets(inflight) : g.rid = event.rid + 1
    /\ \E i \in DOMAIN tasks : tasks[i].id = event.id
    /\ loading = TRUE

\* C6: a DELETE is sent only by the "Sil" button of the confirmation dialog
\* that handleDelete opened for the same id, and then exactly one; opening
\* or cancelling the dialog sends nothing and leaves tasks and loading
\* alone; the refetch follows exactly when the DELETE succeeded, and a
\* failed DELETE raises an alert and leaves tasks alone.
C6_Delete ==
    [][/\ \A r \in Sent : r.method = "DELETE" =>
             /\ Sent = {r}
             /\ Settled = {}
             /\ \E i \in DOMAIN alerts :
                   /\ alerts[i] = Alert("confirmDelete", r.id)
                   /\ alerts' = Remove(alerts, i)
             /\ tasks' = tasks /\ loading' = loading
       /\ event'.op \in {"delete", "dismiss"} =>
             /\ NoRequestSent /\ Settled = {}
             /\ tasks' = tasks /\ loading' = loading
       /\ event'.op = "delete" =>
             alerts' = Append(alerts, Alert("confirmDelete", event'.id))
       /\ (/\ Len(alerts') > Len(alerts)
           /\ alerts'[Len(alerts')].kind = "confirmDelete") =>
             /\ event'.op = "delete"
             /\ \E t \in ShownTasks : t.id = event'.id
       /\ event'.op = "sil" =>
             Sent = {Request(event'.rid, "DELETE", event'.id, FALSE)}
       /\ \A r \in Settled : r.method = "DELETE" =>
             /\ event'.op \in {"deleteOk", "deleteFailed"}
             /\ tasks' = tasks
             /\ event'.op = "deleteOk" =>
                   /\ Cardinality(Sent) = 1 /\ Gets(Sent) = Sent
                   /\ alerts' = alerts
             /\ event'.op = "deleteFailed" =>
                   /\ Sent = {}
                   /\ alerts' = Append(alerts, Alert("deleteError", ""))]_vars

C6_Witness ==
    /\ event.op = "deleteOk"
    /\ \E g \in Gets(inflight) : g.rid = event.rid + 1
    /\ \E i \in DOMAIN tasks : tasks[i].id = event.id

\* C7: whenever the home screen gains focus, on first display and on every
\* return from add_edit, a fetchTasks GET is started; with requests that
\* complete, that GET fails or its response becomes the list shown.
C7_RefetchOnFocus ==
    /\ FocusPending
    /\ [][/\ (route # "home" /\ route' = "home") => FocusPending'
          /\ FocusPending =>
                /\ event'.op = "focus"
                /\ Sent = {Request(event'.rid, "GET", "", FALSE)}
                /\ Settled = {}
                /\ loading' = TRUE]_vars
    /\ \A rid \in 1..MaxRequests :
          (event.op = "focus" /\ event.rid = rid)
             ~> (\/ tasksFrom = rid
                 \/ event.op = "getFailed" /\ event.rid = rid)

C7_Witness ==
    /\ event.op = "getOk" /\ event.rid = 2
    /\ tasksFrom = 2
    /\ nextRid = 3
    /\ route = "home"
    /\ tasks # <<>>

\* C8: loading is true whenever a fetchTasks GET is in flight.
C8_LoadingWhileFetching == Gets(inflight) # {} => loading

=============================================================================
